---- MODULE Spec2Model ----
(***************************************************************************)
(* codex-browser: the action orchestration engine of src/cli.ts.           *)
(*                                                                         *)
(* main() loads and validates a payload, runBrowser() launches a browser   *)
(* session and drives the action list one action at a time (template       *)
(* resolution, execution, variable store, results), classifies a failure   *)
(* and main() writes one JSON report.                                      *)
(*                                                                         *)
(* JavaScript runs each piece of code between two awaits to completion:    *)
(* the signal handler and the page's console/pageerror callbacks can only  *)
(* run while the main flow is suspended in an await.  The program counter  *)
(* pc therefore distinguishes the suspended positions (AwaitPcs), where    *)
(* the callbacks may fire, from the synchronous ones, where only the main  *)
(* flow moves.                                                             *)
(*                                                                         *)
(* JS strings are sequences of characters.  JS values are tagged records.  *)
(* An optional field that is undefined is a field the record lacks.        *)
(***************************************************************************)
EXTENDS Integers, Sequences, FiniteSets, TLC

(***************************************************************************)
(* Bounds of the model.                                                    *)
(***************************************************************************)
MaxActions == 3
MaxDiag == 1
MaxPieces == 2

(***************************************************************************)
(* Strings, values, objects.                                               *)
(***************************************************************************)
EmptyRec == [k \in {} |-> 0]

Opt(name, present, v) == IF present THEN name :> v ELSE EmptyRec

undefined == [t |-> "undefined"]
null == [t |-> "null"]
VStr(s) == [t |-> "string", s |-> s]
VNum(n) == [t |-> "number", n |-> n]
VBool(b) == [t |-> "boolean", b |-> b]
VObj(f) == [t |-> "object", f |-> f]

K_x == <<"x">>
K_y == <<"y">>
K_proto == <<"_", "_", "p", "r", "o", "t", "o", "_", "_">>
K_url == <<"u", "r", "l">>
K_status == <<"s", "t", "a", "t", "u", "s">>
K_result == <<"r", "e", "s", "u", "l", "t">>
K_selector == <<"s", "e", "l", "e", "c", "t", "o", "r">>
K_state == <<"s", "t", "a", "t", "e">>
K_key == <<"k", "e", "y">>
K_path == <<"p", "a", "t", "h">>
K_width == <<"w", "i", "d", "t", "h">>
K_height == <<"h", "e", "i", "g", "h", "t">>
K_ms == <<"m", "s">>
S_visible == <<"v", "i", "s", "i", "b", "l", "e">>
S_load == <<"l", "o", "a", "d">>

\* String(v) of a primitive value
String(v) ==
  CASE v.t = "string" -> v.s
    [] v.t = "number" ->
         (CASE v.n = 0 -> <<"0">>
            [] v.n = 2 -> <<"2">>
            [] v.n = 200 -> <<"2", "0", "0">>
            [] OTHER -> <<"N">>)
    [] v.t = "boolean" ->
         (IF v.b THEN <<"t", "r", "u", "e">> ELSE <<"f", "a", "l", "s", "e">>)
    [] OTHER -> <<"?">>

(***************************************************************************)
(* Errors.  CodexBrowserError carries a code; any other thrown object has  *)
(* only a name and a message.                                              *)
(***************************************************************************)
CodexBrowserError(code, message) ==
  [class |-> "CodexBrowserError", name |-> "CodexBrowserError",
   code |-> code, message |-> message]

OtherError(name, message) == [class |-> "Error", name |-> name, message |-> message]

Thrown(e) == [ok |-> FALSE, err |-> e]
Returned(v) == [ok |-> TRUE, v |-> v]

(***************************************************************************)
(* Template resolver.                                                      *)
(***************************************************************************)
Digits == {"0", "1", "2", "3", "4", "5", "6", "7", "8", "9"}
Lower == {"a", "b", "c", "d", "e", "f", "g", "h", "i", "j", "k", "l", "m",
          "n", "o", "p", "q", "r", "s", "t", "u", "v", "w", "x", "y", "z"}
Upper == {"A", "B", "C", "D", "E", "F", "G", "H", "I", "J", "K", "L", "M",
          "N", "O", "P", "Q", "R", "S", "T", "U", "V", "W", "X", "Y", "Z"}
WordChars == Digits \cup Lower \cup Upper \cup {"_"}
PathChars == WordChars \cup {"$", ".", "-"}
SpaceChars == {" ", "\t", "\n"}

\* the first position >= i of s whose character is not in class (Len(s)+1 if none)
RECURSIVE SkipWhile(_, _, _)
SkipWhile(s, i, class) ==
  IF i <= Len(s) /\ s[i] \in class THEN SkipWhile(s, i + 1, class) ELSE i

\* TEMPLATE_REGEX = /\{\{\s*([\w$.-]+)\s*\}\}/ anchored at position i:
\* the captured path and the position of the last character of the match,
\* last = 0 when there is no match at i
TEMPLATE_REGEX(s, i) ==
  IF ~(i + 1 <= Len(s) /\ s[i] = "{" /\ s[i + 1] = "{")
  THEN [last |-> 0, rawPath |-> <<>>]
  ELSE LET p == SkipWhile(s, i + 2, SpaceChars)
           q == SkipWhile(s, p, PathChars)
           r == SkipWhile(s, q, SpaceChars)
       IN IF q > p /\ r + 1 <= Len(s) /\ s[r] = "}" /\ s[r + 1] = "}"
          THEN [last |-> r + 1, rawPath |-> SubSeq(s, p, q - 1)]
          ELSE [last |-> 0, rawPath |-> <<>>]

\* value.includes('{{')
IncludesBraces(s) == \E i \in 1..(Len(s) - 1) : s[i] = "{" /\ s[i + 1] = "{"

\* rawPath.split('.').filter(Boolean)
RECURSIVE SplitPath(_)
SplitPath(rawPath) ==
  IF rawPath = <<>> THEN <<>>
  ELSE LET e == SkipWhile(rawPath, 1, PathChars \ {"."})
           head == SubSeq(rawPath, 1, e - 1)
           rest == SplitPath(SubSeq(rawPath, e + 1, Len(rawPath)))
       IN IF head = <<>> THEN rest ELSE <<head>> \o rest

\* readVarPath that reads a missing property as the empty string
RECURSIVE readVarPathLenient(_, _)
readVarPathLenient(value, pathParts) ==
  IF pathParts = <<>> THEN Returned(value)
  ELSE IF value.t = "object" /\ Head(pathParts) \in DOMAIN value.f
       THEN readVarPathLenient(value.f[Head(pathParts)], Tail(pathParts))
       ELSE Returned(VStr(<<>>))

RECURSIVE readVarPath(_, _)
readVarPath(value, pathParts) ==
  IF pathParts = <<>> THEN Returned(value)
  ELSE IF value.t = "object" /\ Head(pathParts) \in DOMAIN value.f
       THEN readVarPath(value.f[Head(pathParts)], Tail(pathParts))
       ELSE Thrown(CodexBrowserError("TEMPLATE_ERROR", "Template path not found"))

\* the replace callback with the test  if (!resolved)  for the empty value
ResolvePlaceholderTruthy(rawPath, vars) ==
  LET pathParts == SplitPath(rawPath)
  IN IF pathParts = <<>>
     THEN Thrown(CodexBrowserError("TEMPLATE_ERROR", "Template path cannot be empty"))
     ELSE LET resolved == readVarPath(VObj(vars), pathParts)
          IN IF ~resolved.ok THEN resolved
             ELSE IF resolved.v \in {null, undefined, VNum(0), VBool(FALSE), VStr(<<>>)}
             THEN Thrown(CodexBrowserError("TEMPLATE_ERROR", "Template path resolves to empty value"))
             ELSE IF resolved.v.t = "object"
             THEN Thrown(CodexBrowserError("TEMPLATE_ERROR", "Template path resolves to a non-primitive"))
             ELSE Returned(String(resolved.v))

\* the replace callback of resolveTemplate
ResolvePlaceholder(rawPath, vars) ==
  LET pathParts == SplitPath(rawPath)
  IN IF pathParts = <<>>
     THEN Thrown(CodexBrowserError("TEMPLATE_ERROR", "Template path cannot be empty"))
     ELSE LET resolved == readVarPath(VObj(vars), pathParts)
          IN IF ~resolved.ok THEN resolved
             ELSE IF resolved.v.t \in {"null", "undefined"}
             THEN Thrown(CodexBrowserError("TEMPLATE_ERROR", "Template path resolves to empty value"))
             ELSE IF resolved.v.t = "object"
             THEN Thrown(CodexBrowserError("TEMPLATE_ERROR", "Template path resolves to a non-primitive"))
             ELSE Returned(String(resolved.v))

\* value.replace(TEMPLATE_REGEX, callback) from position i on; acc is the part
\* of the result built so far.  The callback throws at the first placeholder
\* that does not resolve, and replace() passes the exception on.
RECURSIVE ReplaceFrom(_, _, _, _)
ReplaceFrom(s, i, vars, acc) ==
  IF i > Len(s) THEN Returned(acc)
  ELSE IF TEMPLATE_REGEX(s, i).last = 0
       THEN ReplaceFrom(s, i + 1, vars, acc \o <<s[i]>>)
       ELSE IF ~ResolvePlaceholder(TEMPLATE_REGEX(s, i).rawPath, vars).ok
            THEN ResolvePlaceholder(TEMPLATE_REGEX(s, i).rawPath, vars)
            ELSE ReplaceFrom(s, TEMPLATE_REGEX(s, i).last + 1, vars,
                             acc \o ResolvePlaceholder(TEMPLATE_REGEX(s, i).rawPath, vars).v)

\* resolveTemplate that takes a string without placeholder for a path
resolveTemplateAsPath(value, vars) ==
  IF ~IncludesBraces(value)
  THEN (IF value = <<>> THEN Returned(value) ELSE ResolvePlaceholder(value, vars))
  ELSE ReplaceFrom(value, 1, vars, <<>>)

resolveTemplate(value, vars) ==
  IF ~IncludesBraces(value) THEN Returned(value) ELSE ReplaceFrom(value, 1, vars, <<>>)

(***************************************************************************)
(* Input validation (parseInput, validateAction).                          *)
(***************************************************************************)
SupportedTypes == {"goto", "waitFor", "waitForLoadState", "click", "fill", "press",
                   "screenshot", "evaluate", "setViewport", "wait"}

\* ensureString: the field is present and a non-empty string
ensureString(obj, field) == field \in DOMAIN obj /\ obj[field] # <<>>

\* ensureOptionalSaveAs: absent, or non-empty and matching /^[A-Za-z0-9_-]+$/
ensureOptionalSaveAs(obj) ==
  "saveAs" \in DOMAIN obj =>
     /\ obj.saveAs # <<>>
     /\ \A i \in 1..Len(obj.saveAs) : obj.saveAs[i] \in WordChars \cup {"-"}

\* validateAction returns normally (TRUE) or throws INVALID_INPUT (FALSE)
validateAction(obj) ==
  /\ "type" \in DOMAIN obj
  /\ ensureOptionalSaveAs(obj)
  /\ CASE obj.type = "goto" -> ensureString(obj, "url")
       [] obj.type \in {"waitFor", "click"} -> ensureString(obj, "selector")
       [] obj.type = "waitForLoadState" -> TRUE
       [] obj.type = "fill" -> ensureString(obj, "selector") /\ ensureString(obj, "text")
       [] obj.type = "press" ->
            /\ ensureString(obj, "key")
            /\ ("selector" \in DOMAIN obj => obj.selector # <<>>)
       [] obj.type = "screenshot" -> ensureString(obj, "path")
       [] obj.type = "evaluate" -> ensureString(obj, "expression")
       [] obj.type = "setViewport" -> {"width", "height"} \subseteq DOMAIN obj
       [] obj.type = "wait" -> "ms" \in DOMAIN obj
       [] OTHER -> FALSE

\* parseInput that validates the first action only
parseInputFirstOnly(raw) ==
  IF Len(raw.actions) # 0 /\ validateAction(raw.actions[1])
  THEN Returned([actions |-> raw.actions, options |-> raw.options])
  ELSE Thrown(CodexBrowserError("INVALID_INPUT", "invalid payload"))

parseInput(raw) ==
  IF /\ \A i \in 1..Len(raw.actions) : validateAction(raw.actions[i])
     /\ Len(raw.actions) # 0
  THEN Returned([actions |-> raw.actions, options |-> raw.options])
  ELSE Thrown(CodexBrowserError("INVALID_INPUT", "invalid payload"))

(***************************************************************************)
(* Error classification and serialisation.                                 *)
(***************************************************************************)
\* the error names n for which n.toLowerCase().includes('playwright')
PlaywrightNames == {"PlaywrightError"}

inferErrorCode(err) ==
  IF err.class = "CodexBrowserError" THEN err.code
  ELSE IF err.name = "TimeoutError" THEN "PLAYWRIGHT_TIMEOUT"
  ELSE IF err.name \in PlaywrightNames THEN "PLAYWRIGHT_ERROR"
  ELSE "UNKNOWN"

\* serializeError(err, includeStack) without extras
serializeError(err) ==
  [ok |-> FALSE,
   error |-> [code |-> inferErrorCode(err), name |-> err.name, message |-> err.message]]

\* serializeError(err, includeStack, extras): an undefined extra is a field
\* JSON.stringify leaves out
serializeErrorWith(err, extras) ==
  [ok |-> FALSE,
   error |-> [code |-> extras.code, name |-> err.name, message |-> err.message]
             @@ Opt("stepIndex", "stepIndex" \in DOMAIN extras, extras.stepIndex)
             @@ Opt("action", "action" \in DOMAIN extras, extras.action)
             @@ Opt("tracePath", "tracePath" \in DOMAIN extras, extras.tracePath)
             @@ Opt("resultsSoFar", "resultsSoFar" \in DOMAIN extras, extras.resultsSoFar)
             @@ Opt("console", "console" \in DOMAIN extras, extras.console)
             @@ Opt("pageErrors", "pageErrors" \in DOMAIN extras, extras.pageErrors)]

\* extractErrorPayload(err): err itself when it is an ErrorPayload
IsErrorPayload(err) ==
  /\ "ok" \in DOMAIN err /\ err.ok = FALSE
  /\ "error" \in DOMAIN err
  /\ {"code", "name", "message"} \subseteq DOMAIN err.error

(***************************************************************************)
(* Template resolution of an action, saved value, action executor.         *)
(***************************************************************************)
\* { ...action, field: resolved } once the field's template is resolved
WithField(action, field, r) ==
  IF r.ok THEN Returned([k \in DOMAIN action |-> IF k = field THEN r.v ELSE action[k]])
  ELSE r

resolveActionTemplates(action, vars) ==
  CASE action.type = "goto" -> WithField(action, "url", resolveTemplate(action.url, vars))
    [] action.type \in {"waitFor", "click"} ->
         WithField(action, "selector", resolveTemplate(action.selector, vars))
    [] action.type = "fill" ->
         LET a == WithField(action, "selector", resolveTemplate(action.selector, vars))
         IN IF a.ok THEN WithField(a.v, "text", resolveTemplate(action.text, vars)) ELSE a
    [] action.type = "press" ->
         LET a == WithField(action, "key", resolveTemplate(action.key, vars))
         IN IF a.ok /\ "selector" \in DOMAIN action
            THEN WithField(a.v, "selector", resolveTemplate(action.selector, vars))
            ELSE a
    [] action.type = "screenshot" ->
         WithField(action, "path", resolveTemplate(action.path, vars))
    [] action.type = "evaluate" ->
         WithField(action, "expression", resolveTemplate(action.expression, vars))
    [] OTHER -> Returned(action)

getSavedValue(action, result) ==
  IF "data" \notin DOMAIN result THEN undefined
  ELSE IF action.type = "evaluate" THEN result.data.f[K_result]
  ELSE result.data

\* what the page answers to an action that succeeds
PageUrls == {<<"u">>}
Statuses == {VNum(200)}
EvalResults == {VNum(2), VObj(K_url :> VNum(2))}

\* the answers that make a difference for the action's type
AnswersFor(action) ==
  CASE action.type = "goto" -> [url : PageUrls, status : Statuses, result : {undefined}]
    [] action.type = "evaluate" -> [url : {<<>>}, status : {null}, result : EvalResults]
    [] OTHER -> [url : {<<>>}, status : {null}, result : {undefined}]

\* runAction(page, action, cwd) when every call on the page succeeds
runAction(action, page) ==
  [type |-> action.type, ok |-> TRUE,
   data |->
     CASE action.type = "goto" -> VObj(K_url :> VStr(page.url) @@ K_status :> page.status)
       [] action.type = "waitFor" ->
            VObj(K_selector :> VStr(action.selector)
                 @@ K_state :> VStr(IF "state" \in DOMAIN action THEN action.state ELSE S_visible))
       [] action.type = "waitForLoadState" ->
            VObj(K_state :> VStr(IF "state" \in DOMAIN action THEN action.state ELSE S_load))
       [] action.type \in {"click", "fill"} -> VObj(K_selector :> VStr(action.selector))
       [] action.type = "press" -> VObj(K_key :> VStr(action.key))
       [] action.type = "screenshot" -> VObj(K_path :> VStr(<<"/">> \o action.path))
       [] action.type = "evaluate" -> VObj(K_result :> page.result)
       [] action.type = "setViewport" ->
            VObj(K_width :> VNum(action.width) @@ K_height :> VNum(action.height))
       [] action.type = "wait" -> VObj(K_ms :> VNum(action.ms))]

\* the errors a call on the browser session can fail with
TimeoutError == OtherError("TimeoutError", "Timeout exceeded")
PlaywrightError == OtherError("PlaywrightError", "browser error")
TargetClosed == OtherError("Error", "Target closed")
ActionErrors == {TimeoutError, PlaywrightError, TargetClosed}
SetupError == OtherError("Error", "setup failed")
TraceError == OtherError("Error", "tracing.stop failed")

\* vars = { [name]: value }: the store is replaced, not updated
StoreReplace(vars, name, value) == (name :> value)

\* vars[name] = value on the object literal {}: the key __proto__ reaches
\* the prototype setter of Object.prototype and creates no own property
StoreSet(vars, name, value) ==
  IF name = K_proto THEN vars ELSE (name :> value) @@ vars

(***************************************************************************)
(* The inputs of a run.                                                    *)
(***************************************************************************)
T_x == <<"{", "{", "x", "}", "}">>
T_x_url == <<"{", "{", "x", ".", "u", "r", "l", "}", "}">>

EvalSaveX == [type |-> "evaluate", expression |-> <<"1">>, saveAs |-> K_x]
GotoX == [type |-> "goto", url |-> T_x]
GotoXUrlSaveX == [type |-> "goto", url |-> T_x_url, saveAs |-> K_x]
Wait == [type |-> "wait", ms |-> 2]
EvalSaveProto == [type |-> "evaluate", expression |-> <<"1">>, saveAs |-> K_proto]
BadSaveAs == [type |-> "wait", ms |-> 2, saveAs |-> <<"a", " ", "b">>]
GotoNoUrl == [type |-> "goto"]

ActionPool == {EvalSaveX, GotoX, GotoXUrlSaveX, Wait, EvalSaveProto, BadSaveAs, GotoNoUrl}

ActionLists == UNION {[1..n -> ActionPool] : n \in 0..MaxActions}

S_dir == <<"d">>
OptionsPool ==
  {Opt("traceOnFailureDir", t, S_dir) @@ Opt("captureConsole", c, TRUE) : t, c \in BOOLEAN}

(***************************************************************************)
(* State.                                                                  *)
(***************************************************************************)
VARIABLES
  pc,                     \* position of main() / runBrowser()
  input,                  \* the raw input of the run
  payload,                \* the validated payload (loadInput)
  browser,                \* "none", "open", "closing" (close requested), "closed"
  page,                   \* TRUE once context.newPage() has resolved
  tracing,                \* context.tracing: "off", "on", "stopped"
  artifacts,              \* the trace files written
  interrupted,            \* let interrupted
  listeners,              \* the signals onSignal is registered for
  index,                  \* the loop variable
  currentActionIndex,
  currentResolvedAction,
  results,
  vars,
  consoleEntries,
  pageErrors,
  err,                    \* the exception caught by the catch block of the loop
  outcome,                \* what runBrowser returns or throws
  stdout,                 \* the reports written by writeOutput
  exitCode,
  signalledAt             \* history: pc and index at the first signal

vars_run == <<index, currentActionIndex, currentResolvedAction, results, vars>>
vars_diag == <<consoleEntries, pageErrors>>
vars_sess == <<browser, page, tracing, artifacts>>
vars_sig == <<interrupted, listeners, signalledAt>>
vars_out == <<stdout, exitCode>>
allvars == <<pc, input, payload, vars_run, vars_diag, vars_sess, vars_sig, err, outcome, vars_out>>

none == [t |-> "none"]
NotSignalled == [pc |-> "none", index |-> -1]

\* the positions at which the main flow is suspended in an await on the session
AwaitPcs == {"inAction", "tryStopTracing", "catchTrace", "closing"}

options == payload.options
shouldTrace == "traceOnFailureDir" \in DOMAIN options /\ options.traceOnFailureDir # <<>>
captureConsole == "captureConsole" \in DOMAIN options /\ options.captureConsole
N == Len(payload.actions)

Init ==
  /\ pc = "loadInput"
  /\ input \in [actions : ActionLists, options : OptionsPool]
  /\ payload = [actions |-> <<>>, options |-> EmptyRec]
  /\ browser = "none" /\ page = FALSE /\ tracing = "off" /\ artifacts = {}
  /\ interrupted = FALSE /\ listeners = {} /\ signalledAt = NotSignalled
  /\ index = 0 /\ currentActionIndex = -1 /\ currentResolvedAction = undefined
  /\ results = <<>> /\ vars = EmptyRec
  /\ consoleEntries = <<>> /\ pageErrors = <<>>
  /\ err = none /\ outcome = none
  /\ stdout = <<>> /\ exitCode = 0

(***************************************************************************)
(* main(): loadInput, and runBrowser() up to the action loop.              *)
(***************************************************************************)
\* the exception leaves main() without passing through its catch block
ThrowPastMain(e) ==
  /\ outcome' = Thrown(e)
  /\ pc' = "done"

\* the exception leaves runBrowser before the outer try: nothing to close
ThrowToMain(e) ==
  /\ outcome' = Thrown(e)
  /\ pc' = "mainCatch"

\* the exception leaves runBrowser without passing through the outer finally
ThrowPastFinally(e) ==
  /\ outcome' = Thrown(e)
  /\ pc' = "mainCatch"

\* the exception leaves through the outer finally: await browser.close()
ThrowThroughFinally(e) ==
  /\ outcome' = Thrown(e)
  /\ pc' = "closing"

LoadInput ==
  /\ pc = "loadInput"
  /\ LET r == parseInput(input)
     IN IF r.ok
        THEN /\ payload' = r.v
             /\ pc' = "launch"
             /\ UNCHANGED outcome
        ELSE /\ ThrowToMain(r.err)
             /\ UNCHANGED payload
  /\ UNCHANGED <<input, vars_run, vars_diag, vars_sess, vars_sig, err, vars_out>>

LaunchOk ==
  /\ pc = "launch"
  /\ browser' = "open"
  /\ pc' = "newContext"
  /\ UNCHANGED <<input, payload, vars_run, vars_diag, page, tracing, artifacts, vars_sig, err, outcome, vars_out>>

LaunchFail ==
  /\ pc = "launch"
  /\ ThrowToMain(SetupError)
  /\ UNCHANGED <<input, payload, vars_run, vars_diag, vars_sess, vars_sig, err, vars_out>>

NewContextOk ==
  /\ pc = "newContext"
  /\ pc' = IF shouldTrace THEN "tracingStart" ELSE "newPage"
  /\ UNCHANGED <<input, payload, vars_run, vars_diag, vars_sess, vars_sig, err, outcome, vars_out>>

TracingStartOk ==
  /\ pc = "tracingStart"
  /\ tracing' = "on"
  /\ pc' = "newPage"
  /\ UNCHANGED <<input, payload, vars_run, vars_diag, browser, page, artifacts, vars_sig, err, outcome, vars_out>>

\* browser.newContext, context.tracing.start or context.newPage rejects
SetupFail ==
  /\ pc \in {"newContext", "tracingStart", "newPage"}
  /\ ThrowThroughFinally(SetupError)
  /\ UNCHANGED <<input, payload, vars_run, vars_diag, vars_sess, vars_sig, err, vars_out>>

\* context.newPage() resolves: the page callbacks are attached, results and
\* vars are created, onSignal is registered and the loop starts
NewPageOk ==
  /\ pc = "newPage"
  /\ results' = <<>> /\ vars' = EmptyRec
  /\ currentActionIndex' = -1 /\ currentResolvedAction' = undefined
  /\ index' = 0
  /\ listeners' = {"SIGINT", "SIGTERM"}
  /\ page' = TRUE
  /\ pc' = "loopTop"
  /\ UNCHANGED <<input, payload, vars_diag, browser, tracing, artifacts, interrupted, signalledAt, err, outcome, vars_out>>

(***************************************************************************)
(* The action loop.                                                        *)
(***************************************************************************)
action == payload.actions[index + 1]

\* if (interrupted) throw new CodexBrowserError('INTERRUPTED', 'Interrupted')
IterInterrupted ==
  /\ pc = "loopTop" /\ index < N
  /\ interrupted
  /\ err' = CodexBrowserError("INTERRUPTED", "Interrupted")
  /\ pc' = "catch"
  /\ UNCHANGED <<input, payload, vars_run, vars_diag, vars_sess, vars_sig, outcome, vars_out>>

\* resolveActionTemplates throws and the store is emptied
IterTemplateFailClears ==
  /\ pc = "loopTop" /\ index < N
  /\ ~interrupted
  /\ LET r == resolveActionTemplates(action, vars)
     IN /\ ~r.ok
        /\ currentActionIndex' = index
        /\ err' = r.err
  /\ vars' = EmptyRec
  /\ pc' = "catch"
  /\ UNCHANGED <<input, payload, index, currentResolvedAction, results, vars_diag,
                 vars_sess, vars_sig, outcome, vars_out>>

\* resolveActionTemplates throws: currentResolvedAction keeps its old value
IterTemplateFail ==
  /\ pc = "loopTop" /\ index < N
  /\ ~interrupted
  /\ LET r == resolveActionTemplates(action, vars)
     IN /\ ~r.ok
        /\ currentActionIndex' = index
        /\ err' = r.err
  /\ pc' = "catch"
  /\ UNCHANGED <<input, payload, index, currentResolvedAction, results, vars, vars_diag,
                 vars_sess, vars_sig, outcome, vars_out>>

\* the action is resolved in place: the payload keeps the resolved form
IterStartInPlace ==
  /\ pc = "loopTop" /\ index < N
  /\ ~interrupted
  /\ LET r == resolveActionTemplates(action, vars)
     IN /\ r.ok
        /\ currentActionIndex' = index
        /\ currentResolvedAction' = r.v
        /\ payload' = [payload EXCEPT !.actions[index + 1] = r.v]
  /\ pc' = "inAction"
  /\ UNCHANGED <<input, index, results, vars, vars_diag, vars_sess, vars_sig,
                 err, outcome, vars_out>>

\* the action is resolved and runAction is called: suspended in the page call
IterStart ==
  /\ pc = "loopTop" /\ index < N
  /\ ~interrupted
  /\ LET r == resolveActionTemplates(action, vars)
     IN /\ r.ok
        /\ currentActionIndex' = index
        /\ currentResolvedAction' = r.v
  /\ pc' = "inAction"
  /\ UNCHANGED <<input, payload, index, results, vars, vars_diag, vars_sess, vars_sig,
                 err, outcome, vars_out>>

\* the result pushed without its savedAs
SavedResultBare(a, resolved, result) == result

\* the value stored for an action that succeeded, and the result pushed
SavedResult(a, resolved, result) ==
  result @@ Opt("savedAs", "saveAs" \in DOMAIN a, IF "saveAs" \in DOMAIN a THEN a.saveAs ELSE <<>>)

VarsAfter(store, a, resolved, result) ==
  IF "saveAs" \in DOMAIN a
  THEN StoreSet(store, a.saveAs, getSavedValue(resolved, result))
  ELSE store

\* runAction resolves and the result is put in front of the earlier ones
ActionOkUnshift ==
  /\ pc = "inAction"
  /\ \E answer \in AnswersFor(currentResolvedAction) :
       LET result == runAction(currentResolvedAction, answer)
       IN /\ vars' = VarsAfter(vars, action, currentResolvedAction, result)
          /\ results' = <<SavedResult(action, currentResolvedAction, result)
                          @@ [index |-> index]>> \o results
  /\ index' = index + 1
  /\ pc' = "loopTop"
  /\ UNCHANGED <<input, payload, currentActionIndex, currentResolvedAction, vars_diag,
                 vars_sess, vars_sig, err, outcome, vars_out>>

\* runAction resolves: save the value, push the result, next iteration
ActionOk ==
  /\ pc = "inAction"
  /\ \E answer \in AnswersFor(currentResolvedAction) :
       LET result == runAction(currentResolvedAction, answer)
       IN /\ vars' = VarsAfter(vars, action, currentResolvedAction, result)
          /\ results' = Append(results,
                               SavedResult(action, currentResolvedAction, result)
                               @@ [index |-> index])
  /\ index' = index + 1
  /\ pc' = "loopTop"
  /\ UNCHANGED <<input, payload, currentActionIndex, currentResolvedAction, vars_diag,
                 vars_sess, vars_sig, err, outcome, vars_out>>

\* runAction rejects and the loop starts the action again
ActionFailRetry ==
  /\ pc = "inAction"
  /\ \E e \in ActionErrors : err' = e
  /\ pc' = "loopTop"
  /\ UNCHANGED <<input, payload, vars_run, vars_diag, vars_sess, vars_sig, outcome, vars_out>>

\* runAction rejects, the rejection is swallowed and the loop moves on
ActionFailSkip ==
  /\ pc = "inAction"
  /\ index' = index + 1
  /\ pc' = "loopTop"
  /\ UNCHANGED <<input, payload, currentActionIndex, currentResolvedAction, results, vars,
                 vars_diag, vars_sess, vars_sig, err, outcome, vars_out>>

\* runAction rejects
ActionFail ==
  /\ pc = "inAction"
  /\ \E e \in ActionErrors : err' = e
  /\ pc' = "catch"
  /\ UNCHANGED <<input, payload, vars_run, vars_diag, vars_sess, vars_sig, outcome, vars_out>>

\* the diagnostics arrays are attached by reference: JSON.stringify reads
\* them when the report is written
ConsoleRef == [ref |-> "consoleEntries"]
PageErrorsRef == [ref |-> "pageErrors"]

SuccessOutput ==
  [ok |-> TRUE, results |-> results]
  @@ Opt("variables", DOMAIN vars # {}, vars)
  @@ Opt("console", captureConsole /\ consoleEntries # <<>>, ConsoleRef)
  @@ Opt("pageErrors", captureConsole /\ pageErrors # <<>>, PageErrorsRef)

\* the loop is over: await stopTracing(), then the Success Report
LoopDone ==
  /\ pc = "loopTop" /\ index >= N
  /\ IF shouldTrace
     THEN /\ pc' = "tryStopTracing"
          /\ UNCHANGED outcome
     ELSE /\ outcome' = Returned(SuccessOutput)
          /\ pc' = "innerFinally"
  /\ UNCHANGED <<input, payload, vars_run, vars_diag, vars_sess, vars_sig, err, vars_out>>

\* stopTracing() of the success path that writes the trace into the directory
StopTracingWrites ==
  /\ pc = "tryStopTracing"
  /\ tracing' = "stopped"
  /\ artifacts' = artifacts \cup {S_dir}
  /\ outcome' = Returned(SuccessOutput)
  /\ pc' = "innerFinally"
  /\ UNCHANGED <<input, payload, vars_run, vars_diag, browser, page, vars_sig, err, vars_out>>

\* await stopTracing() resolves: context.tracing.stop() without a path
StopTracingOk ==
  /\ pc = "tryStopTracing"
  /\ tracing' = "stopped"
  /\ outcome' = Returned(SuccessOutput)
  /\ pc' = "innerFinally"
  /\ UNCHANGED <<input, payload, vars_run, vars_diag, browser, page, artifacts, vars_sig, err, vars_out>>

\* context.tracing.stop() rejects inside the try: the catch block runs
StopTracingFail ==
  /\ pc = "tryStopTracing"
  /\ err' = TraceError
  /\ pc' = "catch"
  /\ UNCHANGED <<input, payload, vars_run, vars_diag, vars_sess, vars_sig, outcome, vars_out>>

(***************************************************************************)
(* The catch block of the loop, the two finally blocks.                    *)
(***************************************************************************)
TracePath == <<"d", "/", "t", "r", "a", "c", "e", ".", "z", "i", "p">>

\* the ErrorPayload thrown by the catch block
FailurePayload(e, withTrace) ==
  serializeErrorWith(e,
    [code |-> inferErrorCode(e), resultsSoFar |-> results]
    @@ Opt("stepIndex", currentActionIndex >= 0, currentActionIndex)
    @@ Opt("action", currentResolvedAction # undefined, currentResolvedAction)
    @@ Opt("tracePath", withTrace, TracePath)
    @@ Opt("console", captureConsole /\ consoleEntries # <<>>, ConsoleRef)
    @@ Opt("pageErrors", captureConsole /\ pageErrors # <<>>, PageErrorsRef))

CatchNoTrace ==
  /\ pc = "catch"
  /\ ~shouldTrace
  /\ outcome' = Thrown(FailurePayload(err, FALSE))
  /\ pc' = "innerFinally"
  /\ UNCHANGED <<input, payload, vars_run, vars_diag, vars_sess, vars_sig, err, vars_out>>

\* await stopTracing(tracePath)
CatchStartTrace ==
  /\ pc = "catch"
  /\ shouldTrace
  /\ pc' = "catchTrace"
  /\ UNCHANGED <<input, payload, vars_run, vars_diag, vars_sess, vars_sig, err, outcome, vars_out>>

CatchTraceOk ==
  /\ pc = "catchTrace"
  /\ tracing' = "stopped"
  /\ artifacts' = artifacts \cup {TracePath}
  /\ outcome' = Thrown(FailurePayload(err, TRUE))
  /\ pc' = "innerFinally"
  /\ UNCHANGED <<input, payload, vars_run, vars_diag, browser, page, vars_sig, err, vars_out>>

\* the rejection of the trace capture is dropped and the failure is reported
CatchTraceFailKeeps ==
  /\ pc = "catchTrace"
  /\ outcome' = Thrown(FailurePayload(err, FALSE))
  /\ pc' = "innerFinally"
  /\ UNCHANGED <<input, payload, vars_run, vars_diag, vars_sess, vars_sig, err, vars_out>>

\* fs.mkdir or context.tracing.stop({ path }) rejects inside the catch block:
\* the rejection replaces the failure being handled
CatchTraceFail ==
  /\ pc = "catchTrace"
  /\ outcome' = Thrown(TraceError)
  /\ pc' = "innerFinally"
  /\ UNCHANGED <<input, payload, vars_run, vars_diag, vars_sess, vars_sig, err, vars_out>>

\* the inner finally block without its process.removeListener calls
InnerFinallyKeeps ==
  /\ pc = "innerFinally"
  /\ pc' = "closing"
  /\ UNCHANGED <<input, payload, vars_run, vars_diag, vars_sess, vars_sig,
                 err, outcome, vars_out>>

\* finally { process.removeListener(...) }, then await browser.close()
InnerFinally ==
  /\ pc = "innerFinally"
  /\ listeners' = {}
  /\ pc' = "closing"
  /\ UNCHANGED <<input, payload, vars_run, vars_diag, vars_sess, interrupted, signalledAt,
                 err, outcome, vars_out>>

\* browser.close() of the outer finally
CloseBrowser(b) == "closed"

BrowserClosed ==
  /\ pc = "closing"
  /\ browser' = CloseBrowser(browser)
  /\ pc' = IF outcome.ok THEN "mainWrite" ELSE "mainCatch"
  /\ UNCHANGED <<input, payload, vars_run, vars_diag, page, tracing, artifacts, vars_sig,
                 err, outcome, vars_out>>

(***************************************************************************)
(* main(): the report.                                                     *)
(***************************************************************************)
\* JSON.stringify(payload) reads the arrays the payload refers to
Deref(rec) ==
  [k \in DOMAIN rec |->
     IF k = "console" THEN consoleEntries
     ELSE IF k = "pageErrors" THEN pageErrors
     ELSE rec[k]]

JSONStringify(p) ==
  IF p.ok THEN Deref(p) ELSE [ok |-> FALSE, error |-> Deref(p.error)]

\* writeOutput that writes the report to standard output twice
writeOutputTwice(out, p) == Append(Append(out, JSONStringify(p)), JSONStringify(p))

\* the reports on standard output after writeOutput(p).  The report is what
\* process.stdout.write emits; the copy that writeOutput writes to the file of
\* --output before it, and the parsing of the command line that precedes the
\* try block of main(), are not part of this model.
writeOutput(out, p) == Append(out, JSONStringify(p))

\* const output = await runBrowser(...); await writeOutput(output, ...)
MainWrite ==
  /\ pc = "mainWrite"
  /\ stdout' = writeOutput(stdout, outcome.v)
  /\ pc' = "done"
  /\ UNCHANGED <<input, payload, vars_run, vars_diag, vars_sess, vars_sig, err, outcome, exitCode>>

\* the catch block of main() that leaves process.exitCode as it is
MainCatchExitZero ==
  /\ pc = "mainCatch"
  /\ LET errorPayload == IF IsErrorPayload(outcome.err) THEN outcome.err
                         ELSE serializeError(outcome.err)
     IN stdout' = writeOutput(stdout, errorPayload)
  /\ pc' = "done"
  /\ UNCHANGED <<input, payload, vars_run, vars_diag, vars_sess, vars_sig, err, outcome, exitCode>>

\* catch (err) { extractErrorPayload(err) ?? serializeError(err) ... exitCode = 1 }
MainCatch ==
  /\ pc = "mainCatch"
  /\ LET errorPayload == IF IsErrorPayload(outcome.err) THEN outcome.err
                         ELSE serializeError(outcome.err)
     IN stdout' = writeOutput(stdout, errorPayload)
  /\ exitCode' = 1
  /\ pc' = "done"
  /\ UNCHANGED <<input, payload, vars_run, vars_diag, vars_sess, vars_sig, err, outcome>>

(***************************************************************************)
(* Side channels: they run only while the main flow is suspended.          *)
(***************************************************************************)
\* onSignal that also drops the results recorded so far
onSignalReset(sig) ==
  /\ pc \in AwaitPcs
  /\ sig \in listeners
  /\ listeners' = listeners \ {sig}
  /\ interrupted' = TRUE
  /\ results' = <<>>
  /\ browser' = IF browser = "open" THEN "closing" ELSE browser
  /\ signalledAt' = IF signalledAt = NotSignalled
                    THEN [pc |-> pc, index |-> index] ELSE signalledAt
  /\ UNCHANGED <<pc, input, payload, index, currentActionIndex, currentResolvedAction, vars,
                 vars_diag, page, tracing, artifacts, err, outcome, vars_out>>

\* onSignal, registered with process.once for SIGINT and for SIGTERM
onSignal(sig) ==
  /\ pc \in AwaitPcs
  /\ sig \in listeners
  /\ listeners' = listeners \ {sig}
  /\ interrupted' = TRUE
  /\ browser' = IF browser = "open" THEN "closing" ELSE browser
  /\ signalledAt' = IF signalledAt = NotSignalled
                    THEN [pc |-> pc, index |-> index] ELSE signalledAt
  /\ UNCHANGED <<pc, input, payload, vars_run, vars_diag, page, tracing, artifacts,
                 err, outcome, vars_out>>

Signal == \E sig \in {"SIGINT", "SIGTERM"} : onSignal(sig)

ConsoleEntry == [type |-> "log", text |-> "hello"]
PageErrorEntry == [message |-> "boom"]

\* page.on('console', ...)
OnConsole ==
  /\ pc \in AwaitPcs /\ page /\ captureConsole
  /\ Len(consoleEntries) < MaxDiag
  /\ consoleEntries' = Append(consoleEntries, ConsoleEntry)
  /\ UNCHANGED <<pc, input, payload, vars_run, pageErrors, vars_sess, vars_sig, err,
                 outcome, vars_out>>

\* page.on('pageerror', ...)
OnPageError ==
  /\ pc \in AwaitPcs /\ page /\ captureConsole
  /\ Len(pageErrors) < MaxDiag
  /\ pageErrors' = Append(pageErrors, PageErrorEntry)
  /\ UNCHANGED <<pc, input, payload, vars_run, consoleEntries, vars_sess, vars_sig, err,
                 outcome, vars_out>>

Next ==
  \/ LoadInput
  \/ LaunchOk \/ LaunchFail
  \/ NewContextOk \/ TracingStartOk \/ SetupFail \/ NewPageOk
  \/ IterInterrupted \/ IterTemplateFail \/ IterStart
  \/ ActionOk \/ ActionFail
  \/ LoopDone \/ StopTracingOk \/ StopTracingFail
  \/ CatchNoTrace \/ CatchStartTrace \/ CatchTraceOk \/ CatchTraceFail
  \/ InnerFinally \/ BrowserClosed
  \/ MainWrite \/ MainCatch
  \/ Signal \/ OnConsole \/ OnPageError

Spec == Init /\ [][Next]_allvars

\* the steps of main() and runBrowser(): every continuation of an await whose
\* call has settled is run by the event loop
MainFlow ==
  \/ LoadInput
  \/ LaunchOk \/ LaunchFail
  \/ NewContextOk \/ TracingStartOk \/ SetupFail \/ NewPageOk
  \/ IterInterrupted \/ IterTemplateFail \/ IterStart
  \/ ActionOk \/ ActionFail
  \/ LoopDone \/ StopTracingOk \/ StopTracingFail
  \/ CatchNoTrace \/ CatchStartTrace \/ CatchTraceOk \/ CatchTraceFail
  \/ InnerFinally \/ BrowserClosed
  \/ MainWrite \/ MainCatch

\* The specification of termination.  Every call on the browser session
\* eventually resolves or rejects and the synchronous code between two awaits
\* runs to its end: weak fairness of the main flow.  Termination does not
\* depend on the values the actions carry: the runs start from the inputs
\* built from a wait action (it succeeds or fails in the page call) and a goto
\* action whose template does not resolve.
LiveActionPool == {Wait, GotoX}

LiveInit ==
  /\ Init
  /\ \A i \in 1..Len(input.actions) : input.actions[i] \in LiveActionPool

LiveSpec == LiveInit /\ [][Next]_allvars /\ WF_allvars(MainFlow)

(***************************************************************************)
(* resolveTemplate on its own: one call on a string and a store, and a     *)
(* second call on what the first returned.                                 *)
(***************************************************************************)
T_y == <<"{", "{", "y", "}", "}">>
T_x_y == <<"{", "{", "x", ".", "y", "}", "}">>
T_sp_x == <<"{", "{", " ", "x", " ", "}", "}">>
T_x_dot == <<"{", "{", "x", ".", "}", "}">>
T_dot == <<"{", "{", ".", "}", "}">>
T_x_sp_y == <<"{", "{", "x", " ", "y", "}", "}">>

\* the pieces a string is made of: plain text, placeholders, and text with
\* braces that is no placeholder
Pieces == {<<"a">>, <<"{">>, <<"}", "}">>, T_x, T_y, T_x_y, T_sp_x, T_x_dot, T_dot, T_x_sp_y}

RECURSIVE Concat(_)
Concat(ps) == IF ps = <<>> THEN <<>> ELSE Head(ps) \o Concat(Tail(ps))

TemplateStrings == {Concat(ps) : ps \in UNION {[1..n -> Pieces] : n \in 0..MaxPieces}}

\* what a store can hold under a name: scalars (the falsy ones, and a string
\* that reads like a placeholder), null, undefined, and objects
StoredValues ==
  {VNum(0), VNum(2), VBool(FALSE), VStr(<<>>), VStr(T_y), null, undefined,
   VObj(EmptyRec), VObj(K_y :> VNum(200)), VObj(K_y :> null)}

Stores ==
  {EmptyRec} \cup {K_x :> v : v \in StoredValues}
             \cup {(K_x :> v) @@ (K_y :> VBool(TRUE)) : v \in StoredValues}

ResolverInit ==
  /\ pc = "resolve"
  /\ input \in [value : TemplateStrings]
  /\ vars \in Stores
  /\ payload = [actions |-> <<>>, options |-> EmptyRec]
  /\ browser = "none" /\ page = FALSE /\ tracing = "off" /\ artifacts = {}
  /\ interrupted = FALSE /\ listeners = {} /\ signalledAt = NotSignalled
  /\ index = 0 /\ currentActionIndex = -1 /\ currentResolvedAction = undefined
  /\ results = <<>>
  /\ consoleEntries = <<>> /\ pageErrors = <<>>
  /\ err = none /\ outcome = none
  /\ stdout = <<>> /\ exitCode = 0

\* resolveTemplate(value, vars)
Resolve ==
  /\ pc = "resolve"
  /\ outcome' = resolveTemplate(input.value, vars)
  /\ pc' = "resolved"
  /\ UNCHANGED <<input, payload, vars_run, vars_diag, vars_sess, vars_sig, err, vars_out>>

\* resolveTemplate on the string the first call returned
ResolveAgain ==
  /\ pc = "resolved"
  /\ outcome.ok
  /\ outcome' = resolveTemplate(outcome.v, vars)
  /\ pc' = "resolvedAgain"
  /\ UNCHANGED <<input, payload, vars_run, vars_diag, vars_sess, vars_sig, err, vars_out>>

ResolverNext == Resolve \/ ResolveAgain

ResolverSpec == ResolverInit /\ [][ResolverNext]_allvars

(***************************************************************************)
(* Properties.                                                             *)
(***************************************************************************)
\* the report of a finished run
Report == stdout[1]

\* the catch block of the loop caught the failure of an action: its template
\* resolution (TEMPLATE_ERROR) or its execution (a rejected page call)
TemplateFailed == err # none /\ err.class = "CodexBrowserError" /\ err.code = "TEMPLATE_ERROR"
ExecutionFailed == err \in ActionErrors
InterruptCheckFailed == err # none /\ err.class = "CodexBrowserError" /\ err.code = "INTERRUPTED"

\* C1: a run in which template resolution or execution of action k fails ends
\* with a Failure Report whose stepIndex is k and whose resultsSoFar are the
\* k results of actions 0..k-1, in order, with or without failure tracing.
C1_PartialResultsReported ==
  (pc = "done" /\ (TemplateFailed \/ ExecutionFailed)) =>
     /\ Len(stdout) = 1 /\ ~Report.ok
     /\ "stepIndex" \in DOMAIN Report.error /\ Report.error.stepIndex = index
     /\ "resultsSoFar" \in DOMAIN Report.error
     /\ Len(Report.error.resultsSoFar) = index
     /\ \A j \in 1..index :
          /\ Report.error.resultsSoFar[j].index = j - 1
          /\ Report.error.resultsSoFar[j].type = payload.actions[j].type

C3_InterruptAlwaysWins ==
  (pc = "done" /\ signalledAt.pc = "inAction") =>
     /\ Len(stdout) = 1 /\ ~Report.ok
     /\ Report.error.code = "INTERRUPTED"

\* C4: when template resolution of action i fails, the Failure Report has code
\* TEMPLATE_ERROR, stepIndex i and, as action, the unresolved action i of the
\* input list.
C4_TemplateFailureAttributed ==
  (pc = "done" /\ TemplateFailed) =>
     /\ Len(stdout) = 1 /\ ~Report.ok
     /\ Report.error.code = "TEMPLATE_ERROR"
     /\ "stepIndex" \in DOMAIN Report.error /\ Report.error.stepIndex = index
     /\ "action" \in DOMAIN Report.error
     /\ Report.error.action = payload.actions[index + 1]

\* C5: a failure without an explicit code that is caught while the interrupted
\* flag is set is classified INTERRUPTED.
C5_InterruptedBeforeBrowserCodes ==
  (pc = "catch" /\ interrupted /\ err.class # "CodexBrowserError") =>
     inferErrorCode(err) = "INTERRUPTED"

\* the string fields of an action that resolveActionTemplates resolves
TemplatedStrings(a) ==
  CASE a.type = "goto" -> {a.url}
    [] a.type \in {"waitFor", "click"} -> {a.selector}
    [] a.type = "fill" -> {a.selector, a.text}
    [] a.type = "press" -> {a.key} \cup (IF "selector" \in DOMAIN a THEN {a.selector} ELSE {})
    [] a.type = "screenshot" -> {a.path}
    [] a.type = "evaluate" -> {a.expression}
    [] OTHER -> {}

\* the variables named by the placeholders of a string
RootsOf(s) ==
  UNION {LET parts == SplitPath(TEMPLATE_REGEX(s, i).rawPath)
         IN IF parts = <<>> THEN {} ELSE {Head(parts)} : i \in 1..Len(s)}

\* the variables named by the placeholders of an action
PlaceholderRoots(a) == UNION {RootsOf(s) : s \in TemplatedStrings(a)}

\* the names declared as saveAs by the first k actions of the list
SavedBy(k) ==
  {payload.actions[j].saveAs : j \in {j2 \in 1..k : "saveAs" \in DOMAIN payload.actions[j2]}}

\* C6: the templates of action i are resolved against a store that holds only
\* values saved by actions with a smaller index, and an action with a
\* placeholder whose variable no earlier action declares is not started: its
\* resolution raises TEMPLATE_ERROR and leaves store and results as they were.
C6_ResolutionSeesOnlyEarlierSaves ==
  [][(pc = "loopTop" /\ index < N /\ ~interrupted) =>
       /\ DOMAIN vars \subseteq SavedBy(index)
       /\ ~(PlaceholderRoots(action) \subseteq SavedBy(index)) =>
            /\ pc' = "catch"
            /\ err'.class = "CodexBrowserError" /\ err'.code = "TEMPLATE_ERROR"
            /\ currentActionIndex' = index
            /\ vars' = vars /\ results' = results]_allvars

\* the resolution of an action failed on a placeholder whose variable is
\* declared only by the action itself or by a later action
C6_Witness ==
  /\ pc = "catch" /\ TemplateFailed
  /\ \E n \in PlaceholderRoots(action) :
       /\ n \notin SavedBy(index)
       /\ n \in SavedBy(N)

\* C7: for every action j that declares saveAs and succeeded, the value that
\* template resolution finds under that name while a later action is resolved
\* and run is the saved value of action j (the inner result of an evaluate
\* action, the data record of any other).
C7_SavedValueVisibleLater ==
  pc = "inAction" =>
     \A j \in 1..index :
        "saveAs" \in DOMAIN payload.actions[j] =>
           readVarPath(VObj(vars), <<payload.actions[j].saveAs>>)
             = Returned(getSavedValue(payload.actions[j], results[j]))

\* C8: when the interrupt check at the top of iteration i throws, action i is
\* neither resolved nor executed and the run's report has code INTERRUPTED.
C8_InterruptedAtBoundary ==
  (pc = "done" /\ InterruptCheckFailed) =>
     /\ currentActionIndex < index
     /\ Len(results) = index
     /\ Len(stdout) = 1 /\ ~Report.ok
     /\ Report.error.code = "INTERRUPTED"

\* C9: once the browser has been launched, it has been closed by the time
\* the report of the run is written, whichever way the run ended.
C9_SessionClosedBeforeReport ==
  (Len(stdout) > 0 /\ browser # "none") => browser = "closed"

\* a report was written after the setup of a launched browser failed
C9_Witness ==
  /\ Len(stdout) = 1 /\ browser = "closed"
  /\ ~outcome.ok /\ outcome.err = SetupError

MalformedActions == {BadSaveAs, GotoNoUrl}

RejectedInput ==
  \/ Len(input.actions) = 0
  \/ \E i \in 1..Len(input.actions) : input.actions[i] \in MalformedActions

\* C12: an input whose action list is empty or holds a structurally invalid
\* action at any position is rejected with INVALID_INPUT by loadInput: no
\* browser is launched, no action is started, and the Failure Report has
\* neither stepIndex nor resultsSoFar.
C12_FailFastValidation ==
  (pc # "loadInput" /\ RejectedInput) =>
     /\ pc \in {"mainCatch", "done"}
     /\ browser = "none" /\ ~page
     /\ currentActionIndex = -1 /\ results = <<>>
     /\ ~outcome.ok /\ inferErrorCode(outcome.err) = "INVALID_INPUT"
     /\ pc = "done" =>
          /\ Len(stdout) = 1 /\ ~Report.ok
          /\ Report.error.code = "INVALID_INPUT"
          /\ "stepIndex" \notin DOMAIN Report.error
          /\ "resultsSoFar" \notin DOMAIN Report.error

\* a list whose only invalid action is the last one was rejected and reported
C12_Witness ==
  /\ pc = "done" /\ Len(stdout) = 1
  /\ Len(input.actions) >= 2
  /\ input.actions[Len(input.actions)] \in MalformedActions
  /\ \A i \in 1..(Len(input.actions) - 1) : input.actions[i] = Wait

\* runAction is called: the main flow moves into the page call of an action
ActionStarts == pc # "inAction" /\ pc' = "inAction"

\* C13: actions are started one at a time in increasing index order, each at
\* most once: action i is started from the top of iteration i, right after
\* action i-1 (the last action touched), when the i actions before it have
\* all succeeded and their results are recorded; once a failure has been
\* caught no action is started any more.
C13_StrictlySequential ==
  [][/\ ActionStarts =>
          /\ pc = "loopTop" /\ err = none
          /\ currentActionIndex' = index
          /\ currentActionIndex' = currentActionIndex + 1
          /\ currentResolvedAction'.type = payload.actions[index + 1].type
          /\ Len(results) = index
          /\ \A j \in 1..index :
               /\ results[j].ok /\ results[j].index = j - 1
               /\ results[j].type = payload.actions[j].type
     /\ err # none => (err' = err /\ pc' # "inAction" /\ results' = results)]_allvars

\* the third action of a list is in flight after the first two succeeded
C13_Witness ==
  /\ pc = "inAction" /\ index = 2 /\ currentActionIndex = 2
  /\ Len(results) = 2

\* the catch block of the loop caught a failure of the action loop
LoopFailed == TemplateFailed \/ ExecutionFailed \/ InterruptCheckFailed

\* C14: when the action loop fails (template, execution, timeout, interrupt)
\* and a failure-trace directory is configured, a trace artifact has been
\* written and the Failure Report carries its non-empty path as tracePath,
\* with the code of the failure and a stepIndex.
C14_FailureTraceAttached ==
  (pc = "done" /\ shouldTrace /\ LoopFailed) =>
     /\ Len(stdout) = 1 /\ ~Report.ok
     /\ "tracePath" \in DOMAIN Report.error
     /\ Report.error.tracePath # <<>>
     /\ Report.error.tracePath \in artifacts
     /\ Report.error.code = inferErrorCode(err)
     /\ "stepIndex" \in DOMAIN Report.error

\* no report written so far carries a tracePath
NoTracePathReported ==
  \A k \in 1..Len(stdout) :
     IF stdout[k].ok THEN "tracePath" \notin DOMAIN stdout[k]
     ELSE "tracePath" \notin DOMAIN stdout[k].error

ReportBody == IF Report.ok THEN Report ELSE Report.error

\* C16: the report of the run, Success or Failure, carries console if and only
\* if capture is enabled and a console entry was observed during the run, and
\* then console holds every entry observed, in emission order; likewise
\* pageErrors for the page-error entries.
C16_DiagnosticsFlushed ==
  (pc = "done" /\ Len(stdout) = 1) =>
     /\ "console" \in DOMAIN ReportBody <=> (captureConsole /\ consoleEntries # <<>>)
     /\ "console" \in DOMAIN ReportBody => ReportBody.console = consoleEntries
     /\ "pageErrors" \in DOMAIN ReportBody <=> (captureConsole /\ pageErrors # <<>>)
     /\ "pageErrors" \in DOMAIN ReportBody => ReportBody.pageErrors = pageErrors

ErrorCodes == {"INVALID_INPUT", "TEMPLATE_ERROR", "INTERRUPTED",
               "PLAYWRIGHT_TIMEOUT", "PLAYWRIGHT_ERROR", "UNKNOWN"}

\* the failures that come from a call on the browser session
BrowserOriginated == ActionErrors \cup {TraceError}

\* C17: without an interrupt, the failure caught by the loop is classified
\* with one of the six codes: its explicit code when it carries one, else
\* PLAYWRIGHT_TIMEOUT for a timeout of the browser, PLAYWRIGHT_ERROR for any
\* other failure of a browser-session call, UNKNOWN for the rest; and the
\* report of a run whose action k timed out has ok = false, code
\* PLAYWRIGHT_TIMEOUT and stepIndex k.
C17_Classification ==
  /\ (pc = "catch" /\ ~interrupted) =>
       /\ inferErrorCode(err) \in ErrorCodes
       /\ err.class = "CodexBrowserError" => inferErrorCode(err) = err.code
       /\ (err.class # "CodexBrowserError" /\ err.name = "TimeoutError") =>
             inferErrorCode(err) = "PLAYWRIGHT_TIMEOUT"
       /\ (err.name # "TimeoutError" /\ err \in BrowserOriginated) =>
             inferErrorCode(err) = "PLAYWRIGHT_ERROR"
       /\ (err.class # "CodexBrowserError" /\ err \notin BrowserOriginated) =>
             inferErrorCode(err) = "UNKNOWN"
  /\ (pc = "done" /\ ~interrupted /\ err = TimeoutError) =>
       /\ Len(stdout) = 1 /\ ~Report.ok
       /\ Report.error.code = "PLAYWRIGHT_TIMEOUT"
       /\ "stepIndex" \in DOMAIN Report.error /\ Report.error.stepIndex = index

\* C18: a report with ok = true is written only by a run in which no failure
\* was caught and each of the N actions of the payload succeeded; its results
\* are the N recorded results, entry i carrying index i, ok = true and the
\* type of action i.
C18_SuccessReportComplete ==
  (Len(stdout) > 0 /\ Report.ok) =>
     /\ err = none /\ outcome.ok
     /\ N > 0 /\ index = N
     /\ Report.results = results
     /\ Len(Report.results) = N
     /\ \A j \in 1..N :
          /\ Report.results[j].index = j - 1
          /\ Report.results[j].ok
          /\ Report.results[j].type = payload.actions[j].type

\* a Success Report for a list of at least two actions of different types
C18_Witness ==
  /\ pc = "done" /\ Len(stdout) = 1 /\ Report.ok
  /\ Len(Report.results) >= 2
  /\ Report.results[1].type # Report.results[2].type

\* C19: a Success Report has no variables field when no action of the list
\* declares saveAs, and has the field, holding the final variable store, when
\* at least one action declares saveAs.
C19_VariablesIffSaveAs ==
  (pc = "done" /\ Len(stdout) = 1 /\ Report.ok) =>
     /\ "variables" \in DOMAIN Report <=>
           (\E j \in 1..N : "saveAs" \in DOMAIN payload.actions[j])
     /\ "variables" \in DOMAIN Report => Report.variables = vars

SideChannelStep == pc' = pc /\ allvars' # allvars

\* what the run keeps about its actions, and what it has decided and written
RunState == <<payload, index, currentActionIndex, currentResolvedAction, results, vars>>
Decided == <<err, outcome, stdout, exitCode>>

\* C21: a step of a side channel (console callback, page-error callback,
\* signal handler) leaves the variable store, the results, the current action
\* index and everything the run has decided unchanged.  It is one of: one
\* entry appended to consoleEntries, one entry appended to pageErrors, or the
\* interrupted flag set and the close of the browser requested; each leaves
\* what the other two write unchanged.
C21_SideChannelsBounded ==
  [][SideChannelStep =>
       /\ RunState' = RunState /\ Decided' = Decided
       /\ page' = page /\ tracing' = tracing /\ artifacts' = artifacts
       /\ \/ /\ Len(consoleEntries') = Len(consoleEntries) + 1
             /\ SubSeq(consoleEntries', 1, Len(consoleEntries)) = consoleEntries
             /\ UNCHANGED <<pageErrors, interrupted, browser, listeners>>
          \/ /\ Len(pageErrors') = Len(pageErrors) + 1
             /\ SubSeq(pageErrors', 1, Len(pageErrors)) = pageErrors
             /\ UNCHANGED <<consoleEntries, interrupted, browser, listeners>>
          \/ /\ interrupted' = TRUE
             /\ browser' \in {"closing", "closed"}
             /\ listeners' \subseteq listeners
             /\ UNCHANGED <<consoleEntries, pageErrors>>]_allvars

\* the three side channels have fired while the second action was in flight
C21_Witness ==
  /\ pc = "inAction" /\ Len(results) = 1
  /\ interrupted /\ consoleEntries # <<>> /\ pageErrors # <<>>

\* the payload has been loaded and validated
Loaded == pc # "loadInput" /\ N > 0

\* C22: once loaded, the action list is the list of the input, every action
\* with its original fields, templates unresolved, and no step of the run
\* changes the payload: the resolved form lives in currentResolvedAction only.
C22_ActionsNeverModified ==
  /\ [](Loaded => payload.actions = input.actions)
  /\ [][Loaded => payload' = payload]_allvars

\* the second action has been resolved to something else than its template,
\* and has failed: the list still holds the template
C22_Witness ==
  /\ pc = "catch" /\ currentActionIndex = 1 /\ ExecutionFailed
  /\ payload.actions[2] = GotoX
  /\ currentResolvedAction.url # T_x

\* the placeholders of s from position i on, left to right: where each one
\* starts and ends, and its dotted path
RECURSIVE Placeholders(_, _)
Placeholders(s, i) ==
  IF i > Len(s) THEN <<>>
  ELSE LET m == TEMPLATE_REGEX(s, i)
       IN IF m.last = 0 THEN Placeholders(s, i + 1)
          ELSE <<[first |-> i, last |-> m.last, rawPath |-> m.rawPath]>>
               \o Placeholders(s, m.last + 1)

\* walking the segments of a path into a value, each one an own property of
\* the object reached so far
RECURSIVE OwnPath(_, _)
OwnPath(value, segments) ==
  IF segments = <<>> THEN [found |-> TRUE, v |-> value]
  ELSE IF value.t = "object" /\ Head(segments) \in DOMAIN value.f
       THEN OwnPath(value.f[Head(segments)], Tail(segments))
       ELSE [found |-> FALSE]

\* the value a placeholder refers to, walking from the store; the segments
\* of a dotted path are the names between its dots
Referenced(p, store) == OwnPath(VObj(store), SplitPath(p.rawPath))
RefersToScalar(p, store) ==
  /\ Referenced(p, store).found
  /\ Referenced(p, store).v.t \in {"string", "number", "boolean"}

\* s from position from on, each placeholder of ps replaced by the string
\* form of the scalar it refers to
RECURSIVE Substituted(_, _, _, _)
Substituted(s, ps, from, store) ==
  IF ps = <<>> THEN SubSeq(s, from, Len(s))
  ELSE SubSeq(s, from, Head(ps).first - 1)
       \o String(Referenced(Head(ps), store).v)
       \o Substituted(s, Tail(ps), Head(ps).last + 1, store)

\* C23: resolution fails, with TEMPLATE_ERROR, exactly when some placeholder
\* of the string has a path segment that is not an own property of the object
\* reached so far (the walk starts at the store), or refers to null or to an
\* absent value, or refers to an object; otherwise it returns the string with
\* every placeholder replaced by the string form of its scalar, the falsy
\* scalars 0, false and the empty string included.
C23_ResolutionFailsExactlyWhen ==
  pc = "resolved" =>
    LET ps == Placeholders(input.value, 1)
        bad == \E k \in 1..Len(ps) : ~RefersToScalar(ps[k], vars)
    IN /\ ~outcome.ok <=> bad
       /\ ~outcome.ok => /\ outcome.err.class = "CodexBrowserError"
                         /\ outcome.err.code = "TEMPLATE_ERROR"
       /\ outcome.ok => outcome.v = Substituted(input.value, ps, 1, vars)

\* two placeholders resolved against a store holding 0 under x: "0" twice
C23_Witness ==
  /\ pc = "resolved" /\ input.value = T_x \o T_sp_x
  /\ K_x \in DOMAIN vars /\ vars[K_x] = VNum(0)
  /\ outcome = Returned(<<"0", "0">>)

\* C24: a string without "{{" resolves to itself against every store, no
\* lookup made and no error raised, and resolving the result again gives
\* the same string.
C24_PlainStringFixedPoint ==
  (pc \in {"resolved", "resolvedAgain"} /\ ~IncludesBraces(input.value)) =>
    outcome = Returned(input.value)

\* "{}}" (braces, but no "{{") resolved twice against a store that holds x
C24_Witness ==
  /\ pc = "resolvedAgain" /\ input.value = <<"{", "}", "}">>
  /\ K_x \in DOMAIN vars
  /\ outcome = Returned(<<"{", "}", "}">>)

\* C25: when the template resolution of action i fails, the step that fails
\* leaves the store and the results as they are, the i results of actions
\* 0..i-1; from then on runAction is not entered, for action i or any other,
\* and the store and the results do not change.
C25_TemplateFailureTouchesNothing ==
  [][TemplateFailed' =>
       /\ vars' = vars /\ results' = results /\ index' = index
       /\ pc' # "inAction"
       /\ currentActionIndex' = index
       /\ Len(results) = index
       /\ \A j \in 1..Len(results) : results[j].index = j - 1]_allvars

\* the resolution of the second action has failed against a store that is
\* not empty, with one result recorded
C25_Witness ==
  /\ pc = "catch" /\ TemplateFailed /\ currentActionIndex = 1
  /\ Len(results) = 1 /\ K_x \in DOMAIN vars

\* the saveAs names declared by the actions that have completed so far
DeclaredByCompleted ==
  {payload.actions[j].saveAs :
     j \in {k \in 1..Len(results) : "saveAs" \in DOMAIN payload.actions[k]}}

\* C26: at every point of the run the names in the variable store are
\* exactly the saveAs names declared by the actions that have completed
\* successfully so far.
C26_StoreNamesAreCompletedSaves ==
  Loaded => DOMAIN vars = DeclaredByCompleted

\* an action completes: runAction has resolved and the loop moves on
ActionCompletes == pc = "inAction" /\ pc' = "loopTop"

\* C27: the results, empty at first, hold one entry per action that has
\* completed, entry j with index j: a step on which an action completes
\* appends one entry, whose index is the number of entries before it, and
\* leaves the earlier entries as they are; every other step leaves the
\* results and the number of completed actions unchanged.
C27_ResultsAppendOnly ==
  [][IF ActionCompletes
     THEN /\ Len(results') = Len(results) + 1
          /\ SubSeq(results', 1, Len(results)) = results
          /\ results'[Len(results')].index = Len(results)
          /\ results'[Len(results')].ok
          /\ index' = Len(results')
     ELSE results' = results /\ index' = index]_allvars

\* two actions have completed and the third has failed
C27_Witness ==
  /\ pc = "catch" /\ ExecutionFailed /\ currentActionIndex = 2
  /\ Len(results) = 2 /\ results[2].index = 1

\* entry j of rs names the saveAs of action j, and has no savedAs when the
\* action declares none
CarriesSavedAs(rs) ==
  \A j \in 1..Len(rs) :
     IF "saveAs" \in DOMAIN payload.actions[j]
     THEN "savedAs" \in DOMAIN rs[j] /\ rs[j].savedAs = payload.actions[j].saveAs
     ELSE "savedAs" \notin DOMAIN rs[j]

\* C28: the result of every action that was executed successfully carries
\* savedAs equal to the saveAs name the action declares, and no savedAs when
\* it declares none; so do the results of the report.
C28_SavedAsEchoesSaveAs ==
  [](Loaded =>
       /\ CarriesSavedAs(results)
       /\ (Len(stdout) > 0 /\ Report.ok) => CarriesSavedAs(Report.results)
       /\ (Len(stdout) > 0 /\ ~Report.ok /\ "resultsSoFar" \in DOMAIN Report.error)
             => CarriesSavedAs(Report.error.resultsSoFar))

\* a Success Report whose first result has savedAs x and whose second has none
C28_Witness ==
  /\ pc = "done" /\ Len(stdout) = 1 /\ Report.ok
  /\ Len(Report.results) >= 2
  /\ "savedAs" \in DOMAIN Report.results[1] /\ Report.results[1].savedAs = K_x
  /\ "savedAs" \notin DOMAIN Report.results[2]

\* C29: a run aborted by the interrupt check at the top of iteration i ends
\* with a Failure Report with code INTERRUPTED whose resultsSoFar are the i
\* results recorded, whose stepIndex is i - 1 and whose action is the
\* resolved form of action i - 1: resultsSoFar has stepIndex + 1 entries.
C29_InterruptReportNamesLastAction ==
  (pc = "done" /\ InterruptCheckFailed) =>
     /\ Len(stdout) = 1 /\ ~Report.ok
     /\ Report.error.code = "INTERRUPTED"
     /\ "resultsSoFar" \in DOMAIN Report.error
     /\ Report.error.resultsSoFar = results /\ Len(results) = index
     /\ "stepIndex" \in DOMAIN Report.error /\ Report.error.stepIndex = index - 1
     /\ Len(Report.error.resultsSoFar) = Report.error.stepIndex + 1
     /\ "action" \in DOMAIN Report.error
     /\ Report.error.action = currentResolvedAction
     /\ Report.error.action.type = payload.actions[index].type

\* the trace capture of the catch block rejects: the catch block is left
\* with tracing not stopped
TraceCaptureRejects == pc = "catchTrace" /\ pc' = "innerFinally" /\ tracing' = tracing

\* the trace capture of the catch block rejected: runBrowser threw the
\* rejection itself, not a payload
TraceCaptureFailed == outcome = Thrown(TraceError)

\* C30: when the trace capture rejects while the failure of the loop is
\* handled, the run ends with exactly one Failure Report and exit code 1;
\* the report is the serialised trace error, its code inferred from that
\* error, with no stepIndex, action, resultsSoFar, tracePath, console or
\* pageErrors field.
C30_TraceFailureReplacesFailure ==
  /\ [][TraceCaptureRejects => TraceCaptureFailed']_allvars
  /\ []((pc = "done" /\ TraceCaptureFailed) =>
          /\ LoopFailed \/ err = TraceError
          /\ Len(stdout) = 1 /\ exitCode = 1
          /\ ~Report.ok
          /\ Report.error = [code |-> inferErrorCode(TraceError),
                             name |-> TraceError.name, message |-> TraceError.message]
          /\ DOMAIN Report.error \cap {"stepIndex", "action", "resultsSoFar", "tracePath",
                                       "console", "pageErrors"} = {})

\* the interrupt check aborted the run after one action, with diagnostics
\* captured, and the trace capture rejected
C30_Witness ==
  /\ pc = "done" /\ TraceCaptureFailed /\ InterruptCheckFailed
  /\ Len(results) >= 1 /\ consoleEntries # <<>>
  /\ Len(stdout) = 1

\* the last of the actions 1..n that declares the saveAs name k
LastDeclaring(k, n) ==
  CHOOSE j \in 1..n :
     /\ "saveAs" \in DOMAIN payload.actions[j] /\ payload.actions[j].saveAs = k
     /\ \A l \in (j + 1)..n :
          ~("saveAs" \in DOMAIN payload.actions[l] /\ payload.actions[l].saveAs = k)

\* every declared name of the actions completed so far, with the saved value
\* of the last completed action that declares it
LastWriterStore ==
  [k \in DeclaredByCompleted |->
     getSavedValue(payload.actions[LastDeclaring(k, Len(results))],
                   results[LastDeclaring(k, Len(results))])]

\* C31: in a Success Report variables maps every saveAs name some action
\* declares to the saved value of the last action of the list that declares
\* it; and an action is resolved against the values of the last earlier
\* action declaring each name.
C31_LastWriterWins ==
  /\ (pc = "done" /\ Len(stdout) = 1 /\ Report.ok) =>
        /\ Len(results) = N
        /\ DeclaredByCompleted # {} =>
             "variables" \in DOMAIN Report /\ Report.variables = LastWriterStore
  /\ pc = "inAction" =>
        resolveActionTemplates(action, LastWriterStore) = Returned(currentResolvedAction)

\* the positions of the main flow between the registration of onSignal and
\* the inner finally block: the loop, the trace stop that follows it, and the
\* catch block that handles its failure
LoopRegion == {"loopTop", "inAction", "tryStopTracing", "catch", "catchTrace", "innerFinally"}

\* C32: the interrupt handlers are registered when the loop is entered and at
\* no other step, a handler is registered only between that step and the
\* inner finally block, every step that leaves this region leaves no handler
\* registered, so none is registered once runBrowser is over; and the
\* interrupted flag is only ever set, never cleared, by a step taken inside
\* the region while a handler is registered.
C32_ListenersOnlyDuringLoop ==
  /\ [](listeners # {} => pc \in LoopRegion)
  /\ [](pc \in {"closing", "mainCatch", "done"} => listeners = {})
  /\ [][~(listeners' \subseteq listeners) => (pc = "newPage" /\ pc' = "loopTop")]_allvars
  /\ [][(pc \in LoopRegion /\ pc' \notin LoopRegion) => listeners' = {}]_allvars
  /\ [][interrupted' # interrupted =>
          (interrupted' /\ pc \in LoopRegion /\ listeners # {})]_allvars

\* a run that was interrupted and whose trace capture then rejected is over,
\* with no handler registered
C32_Witness ==
  /\ pc = "done" /\ interrupted /\ TraceCaptureFailed
  /\ listeners = {}

====
